---------------------------- MODULE Spec2Model ----------------------------
(***************************************************************************)
(* The live imprinter of src/WrathRegulatorGUI.py ("ai imprinter 2.py",    *)
(* lines 1306-1795): a weighted rule graph (LogicGraph / RuleNode), the    *)
(* EthosGovernor gate and the LiveImprinter online updater.                *)
(*                                                                         *)
(* Numbers.  Python floats are modelled as fixed-point integers in units   *)
(* of 1/ONE (ONE = 10000, so 0.85 is 8500 and the default l1 = 0.0005 is   *)
(* 5).  Products and quotients truncate toward zero.  Two float effects    *)
(* that the properties depend on are kept explicitly:                      *)
(*   - math.exp underflows to exactly 0.0 below about -745.13 and raises   *)
(*     OverflowError above about 709.78; between, exp is positive, and a   *)
(*     positive value below the resolution is kept as 1 unit;              *)
(*   - the additive 1e-9 guards (softmax normaliser, w0 norm floor) lie    *)
(*     below the resolution; their effect is modelled exactly as the       *)
(*     floor of the guarded quotient (see Softmax and DwOf).               *)
(***************************************************************************)
EXTENDS Integers, Sequences, FiniteSets, TLC

\* 1.0 in fixed-point units (clip01's upper bound)
ONE == 10000

Abs(x) == IF x < 0 THEN -x ELSE x
Sgn(x) == IF x < 0 THEN -1 ELSE IF x > 0 THEN 1 ELSE 0
Max2(a, b) == IF a >= b THEN a ELSE b
Min2(a, b) == IF a <= b THEN a ELSE b

\* non-negative a * b / ONE, the larger factor split so the product stays in range
MulU(a, b) ==
    LET hi == Max2(a, b)
        lo == Min2(a, b)
    IN  (hi \div ONE) * lo + ((hi % ONE) * lo) \div ONE

\* float product a * b, truncated toward zero
Mul(a, b) == Sgn(a) * Sgn(b) * MulU(Abs(a), Abs(b))

\* float quotient a / n for an integer count n > 0, truncated toward zero
DivN(a, n) == Sgn(a) * (Abs(a) \div n)

\* sum of a function's values over a finite domain
RECURSIVE SumOver(_, _)
SumOver(f, D) ==
    IF D = {} THEN 0
    ELSE LET k == CHOOSE k \in D : TRUE IN f[k] + SumOver(f, D \ {k})

\* sum of a sequence
RECURSIVE SumSeq(_)
SumSeq(s) == IF s = <<>> THEN 0 ELSE Head(s) + SumSeq(Tail(s))

-----------------------------------------------------------------------------
(* helpers: math.exp, sigmoid, soft_threshold, variance, clip01            *)

\* math.exp(x) raises OverflowError for x above 709.78
ExpOverflowAt == 7097827
\* math.exp(x) returns 0.0 for x below -745.13
ExpUnderflowAt == 7451332

\* e^-k for k = 0..9 in units of 1/ONE
ExpInt == <<10000, 3679, 1353, 498, 183, 67, 25, 9, 3, 1>>

\* e^-(f/ONE) for 0 <= f < ONE: alternating Taylor series, term n = f^n / n!
RECURSIVE ExpFracTerms(_, _, _)
ExpFracTerms(f, n, term) ==
    IF term = 0 \/ n > 12 THEN 0
    ELSE term - ExpFracTerms(f, n + 1, MulU(term, f) \div n)
ExpFrac(f) == ExpFracTerms(f, 1, ONE)

\* math.exp(x) for x <= 0: exactly 0 on underflow, otherwise positive
ExpNeg(x) ==
    IF -x > ExpUnderflowAt THEN 0
    ELSE LET k == (-x) \div ONE
             f == (-x) % ONE
         IN  IF k >= 10 THEN 1
             ELSE Max2(1, MulU(ExpInt[k + 1], ExpFrac(f)))

\* does sigmoid(x) raise OverflowError (math.exp(-x) out of range)?
SigmoidRaises(x) == -x > ExpOverflowAt

\* sigmoid(x) = 1.0 / (1.0 + math.exp(-x)), where it does not raise
sigmoid(x) ==
    IF x >= 0 THEN (ONE * ONE) \div (ONE + ExpNeg(-x))
    ELSE (ExpNeg(x) * ONE) \div (ONE + ExpNeg(x))

\* soft_threshold with the negative branch shrinking away from zero
soft_threshold_neg(x, lam) ==
    IF x > lam THEN x - lam
    ELSE IF x < -lam THEN x - lam
    ELSE 0

\* soft_threshold(x, lam): L1 shrinkage toward 0
soft_threshold(x, lam) ==
    IF x > lam THEN x - lam
    ELSE IF x < -lam THEN x + lam
    ELSE 0

\* sum((x - m) * (x - m) for x in seq) / len(seq)
VarAbout(seq, m) ==
    DivN(SumSeq([i \in 1..Len(seq) |-> Mul(seq[i] - m, seq[i] - m)]), Len(seq))

\* variance(seq) for a non-empty sequence: population variance
variance(seq) == VarAbout(seq, DivN(SumSeq(seq), Len(seq)))

\* clip01 without its upper bound
clip01_open(x) == IF x < 0 THEN 0 ELSE x

clip01(x) == IF x < 0 THEN 0 ELSE IF x > ONE THEN ONE ELSE x

-----------------------------------------------------------------------------
(* EthosGovernor                                                           *)

warn_thresh == 5000
limit_thresh == 7000
quarantine_thresh == 8500
tau_volatility == 200

\* EthosGovernor() with its default thresholds
DefaultGovernor ==
    [warn_thresh |-> warn_thresh, limit_thresh |-> limit_thresh,
     quarantine_thresh |-> quarantine_thresh, tau_volatility |-> tau_volatility]

\* decide with every threshold exclusive at its lower bound
decide_strict(gov, div_score, volatility) ==
    IF div_score > gov.quarantine_thresh
        THEN [mode |-> "quarantine", lr_scale |-> 0, allow_mutation |-> FALSE]
    ELSE IF div_score > gov.limit_thresh
        THEN [mode |-> "limit", lr_scale |-> 0, allow_mutation |-> FALSE]
    ELSE IF div_score > gov.warn_thresh
        THEN [mode |-> "warning", lr_scale |-> ONE \div 2,
              allow_mutation |-> volatility < gov.tau_volatility]
    ELSE [mode |-> "allow", lr_scale |-> ONE,
          allow_mutation |-> volatility < gov.tau_volatility]

\* decide that also reports "warning" while the volatility is not low
decide_warnvolatile(gov, div_score, volatility) ==
    IF div_score >= gov.quarantine_thresh
        THEN [mode |-> "quarantine", lr_scale |-> 0, allow_mutation |-> FALSE]
    ELSE IF div_score >= gov.limit_thresh
        THEN [mode |-> "limit", lr_scale |-> 0, allow_mutation |-> FALSE]
    ELSE IF div_score >= gov.warn_thresh \/ volatility >= gov.tau_volatility
        THEN [mode |-> "warning", lr_scale |-> ONE \div 2,
              allow_mutation |-> volatility < gov.tau_volatility]
    ELSE [mode |-> "allow", lr_scale |-> ONE,
          allow_mutation |-> volatility < gov.tau_volatility]

\* decide permitting mutation when the volatility is high instead of low
decide_volatile(gov, div_score, volatility) ==
    IF div_score >= gov.quarantine_thresh
        THEN [mode |-> "quarantine", lr_scale |-> 0, allow_mutation |-> FALSE]
    ELSE IF div_score >= gov.limit_thresh
        THEN [mode |-> "limit", lr_scale |-> 0, allow_mutation |-> FALSE]
    ELSE IF div_score >= gov.warn_thresh
        THEN [mode |-> "warning", lr_scale |-> ONE \div 2,
              allow_mutation |-> volatility > gov.tau_volatility]
    ELSE [mode |-> "allow", lr_scale |-> ONE,
          allow_mutation |-> volatility > gov.tau_volatility]

\* EthosGovernor.decide: (mode, lr_scale, allow_mutation)
decide(gov, div_score, volatility) ==
    IF div_score >= gov.quarantine_thresh
        THEN [mode |-> "quarantine", lr_scale |-> 0, allow_mutation |-> FALSE]
    ELSE IF div_score >= gov.limit_thresh
        THEN [mode |-> "limit", lr_scale |-> 0, allow_mutation |-> FALSE]
    ELSE IF div_score >= gov.warn_thresh
        THEN [mode |-> "warning", lr_scale |-> ONE \div 2,
              allow_mutation |-> volatility < gov.tau_volatility]
    ELSE [mode |-> "allow", lr_scale |-> ONE,
          allow_mutation |-> volatility < gov.tau_volatility]

-----------------------------------------------------------------------------
(* Python values: None / a value, and dict-like sparse maps                *)

None == <<>>
Some(v) == <<v>>
IsNone(o) == o = <<>>
Val(o) == o[1]

\* an empty dict / defaultdict
EmptyMap == [k \in {} |-> 0]
\* dict.get(k, 0.0)
Get(m, k) == IF k \in DOMAIN m THEN m[k] ELSE 0
\* m[k] = v
Put(m, k, v) == [x \in DOMAIN m \cup {k} |-> IF x = k THEN v ELSE m[x]]
\* reading defaultdict(float) keys K: every missing key is inserted with 0.0
Touch(m, K) == [x \in DOMAIN m \cup K |-> IF x \in DOMAIN m THEN m[x] ELSE 0]
\* the elements of a sequence
Range(s) == {s[i] : i \in 1..Len(s)}

-----------------------------------------------------------------------------
(* state                                                                   *)

VARIABLES
    actions,            \* LogicGraph.actions: list of action names
    order,              \* insertion order of the keys of LogicGraph.rules
    rules,              \* LogicGraph.rules: name -> RuleNode
    cfg,                \* LiveImprinter constructor arguments (incl. governor)
    stability_window,   \* deque(maxlen=25) of policy[chosen]
    mutate_window,      \* deque(maxlen=mut_window) of 0/1
    w0_snap,            \* None or the birth snapshot
    w0_l1,              \* None or max(l1 norm of w0_snap, 1e-9)
    prev_policy,        \* None or a copy of the previous policy
    prev_snap,          \* None or the snapshot taken at the end of the last imprint
    fwd,                \* None or what the last completed forward returned
    ret,                \* the last call: its name, outcome and returned record
    nCalls,             \* calls made so far
    nMut,               \* direct calls of mutate so far
    call                \* the last direct call of a helper function

gvars == <<actions, order, rules>>
ivars == <<stability_window, mutate_window, w0_snap, w0_l1, prev_policy, prev_snap>>
vars == <<actions, order, rules, cfg, stability_window, mutate_window, w0_snap,
          w0_l1, prev_policy, prev_snap, fwd, ret, nCalls, nMut, call>>

-----------------------------------------------------------------------------
(* RuleNode and LogicGraph                                                 *)

\* RuleNode.__init__
RuleNode(bias) ==
    [bias |-> bias, w_in |-> EmptyMap, w_out |-> EmptyMap, last_act |-> 0]

\* LogicGraph.add_rule: the node stored under name
add_rule_node(inputs, outputs, bias) ==
    [RuleNode(bias) EXCEPT !.w_in = inputs, !.w_out = outputs]

\* add_rule that keeps the node an existing name has
add_rule_keep(rs, name, inputs, outputs, bias) ==
    IF name \in DOMAIN rs THEN rs
    ELSE Put(rs, name, add_rule_node(inputs, outputs, bias))

\* LogicGraph.add_rule: self.rules[name] = r, whether or not name is a key
add_rule(rs, name, inputs, outputs, bias) ==
    Put(rs, name, add_rule_node(inputs, outputs, bias))

\* the pre-activation s of RuleNode.activate
PreAct(r, features) ==
    r.bias + SumOver([f \in DOMAIN features |-> Mul(Get(r.w_in, f), features[f])],
                     DOMAIN features)

\* RuleNode.activate up to the call of sigmoid: w_in[f] is read for every feature
activate_read(r, features) == [r EXCEPT !.w_in = Touch(r.w_in, DOMAIN features)]

\* RuleNode.activate, completed: last_act is overwritten
activate(r, features) ==
    [activate_read(r, features) EXCEPT !.last_act = sigmoid(PreAct(r, features))]

\* index in the rule order of the first rule whose sigmoid raises, 0 if none
FirstRaise(rs, ord, features) ==
    LET bad == {i \in 1..Len(ord) : SigmoidRaises(PreAct(rs[ord[i]], features))}
    IN  IF bad = {} THEN 0 ELSE CHOOSE i \in bad : \A j \in bad : i <= j

\* position of rule n in the rule order
IndexOf(ord, n) == CHOOSE i \in 1..Len(ord) : ord[i] = n

\* the activation loop stopped by a raise at position k (0: no raise)
ActivateUpTo(rs, ord, features, k) ==
    [n \in DOMAIN rs |->
        IF k = 0 \/ IndexOf(ord, n) < k THEN activate(rs[n], features)
        ELSE IF IndexOf(ord, n) = k THEN activate_read(rs[n], features)
        ELSE rs[n]]

\* the rules after the activation loop of forward (lines 1372-1373), which
\* stops at the first rule whose sigmoid raises
forward_rules(rs, ord, features) ==
    ActivateUpTo(rs, ord, features, FirstRaise(rs, ord, features))

\* logits[a] += w * r.last_act on a plain dict: KeyError for a key outside actions
LogitsKeyError(rs, acts) ==
    \E n \in DOMAIN rs : ~(DOMAIN rs[n].w_out \subseteq Range(acts))

\* the action logits (lines 1376-1379)
Logits(rs, acts) ==
    [a \in Range(acts) |->
        SumOver([n \in DOMAIN rs |-> Mul(Get(rs[n].w_out, a), rs[n].last_act)],
                DOMAIN rs)]

\* max(logits.values())
MaxOf(f) == CHOOSE m \in {f[k] : k \in DOMAIN f} : \A k \in DOMAIN f : f[k] <= m

\* exps[a] / Z with Z = sum(exps) + 1e-9: the quotient lies just below
\* exps[a] / sum(exps), so its floor in units of 1/ONE is
\* floor((exps[a] * ONE - 1) / sum(exps)); a positive probability below the
\* resolution stays positive
Normalise(exps, Zs) ==
    [a \in DOMAIN exps |->
        IF exps[a] = 0 THEN 0 ELSE Max2(1, (exps[a] * ONE - 1) \div Zs)]

\* exps = {a: math.exp(logits[a] - mx)}
ExpsOf(logits, mx) == [a \in DOMAIN logits |-> ExpNeg(logits[a] - mx)]

NormaliseExps(exps) == Normalise(exps, SumOver(exps, DOMAIN exps))

\* the softmax policy (lines 1382-1385)
Softmax(logits) == NormaliseExps(ExpsOf(logits, MaxOf(logits)))

-----------------------------------------------------------------------------
(* snapshots & deltas                                                      *)

snapshot_weights(rs) ==
    [bias  |-> [n \in DOMAIN rs |-> rs[n].bias],
     w_in  |-> [n \in DOMAIN rs |-> rs[n].w_in],
     w_out |-> [n \in DOMAIN rs |-> rs[n].w_out]]

\* sum of |m[k]| over the keys of a map
AbsSum(m) == SumOver([k \in DOMAIN m |-> Abs(m[k])], DOMAIN m)

l1_norm_snapshot(snap) ==
    AbsSum(snap.bias)
    + SumOver([n \in DOMAIN snap.w_in |-> AbsSum(snap.w_in[n])], DOMAIN snap.w_in)
    + SumOver([n \in DOMAIN snap.w_out |-> AbsSum(snap.w_out[n])], DOMAIN snap.w_out)

\* sum over the union of the keys of |w - w0|, a missing key read as 0.0
MapDiff(m0, m) ==
    LET keys == DOMAIN m0 \cup DOMAIN m
    IN  SumOver([k \in keys |-> Abs(Get(m, k) - Get(m0, k))], keys)

\* l1_diff_snap_vs_graph summing |w| instead of |w - w0|
l1_diff_nobase(snap, rs) == l1_norm_snapshot(snapshot_weights(rs))

\* only the rules named in the snapshot are compared
l1_diff_snap_vs_graph(snap, rs) ==
    LET names == DOMAIN snap.bias
    IN  SumOver([n \in names |->
                    Abs((IF n \in DOMAIN rs THEN rs[n].bias ELSE 0) - snap.bias[n])],
                names)
        + SumOver([n \in names |->
                    IF n \in DOMAIN rs THEN MapDiff(snap.w_in[n], rs[n].w_in)
                    ELSE AbsSum(snap.w_in[n])], names)
        + SumOver([n \in names |->
                    IF n \in DOMAIN rs THEN MapDiff(snap.w_out[n], rs[n].w_out)
                    ELSE AbsSum(snap.w_out[n])], names)

-----------------------------------------------------------------------------
(* LiveImprinter                                                           *)

\* deque(maxlen=25) of stability_window
StabilityMaxLen == 25
\* the literal 0.02 of the "extra volatile check" in imprint
MutateVolTrigger == 200

\* deque.append without maxlen: nothing is ever evicted
dq_append_unbounded(q, x, maxlen) == Append(q, x)

\* deque.append with maxlen: the oldest entry is evicted on overflow
dq_append(q, x, maxlen) ==
    LET s == Append(q, x) IN IF Len(s) > maxlen THEN Tail(s) ELSE s

\* max(l1_norm_snapshot(w0), 1e-9): 1e-9 lies below the resolution and is kept as 0
W0Norm(snap) == l1_norm_snapshot(snap)

\* l1_diff / w0_l1, capped at 1.0; with the norm at its 1e-9 floor any drift of
\* one unit or more is far above 1.0
DwOf(diff, l1) ==
    IF l1 = 0 THEN (IF diff = 0 THEN 0 ELSE ONE)
    ELSE IF diff >= l1 THEN ONE
    ELSE IF l1 > 200000 THEN diff \div (l1 \div ONE)
    ELSE (diff * ONE) \div l1

\* Dpi: half the L1 distance to the previous policy over the keys of the
\* current policy, capped at 1.0
DpiOf(prev, cur) ==
    IF IsNone(prev) THEN 0
    ELSE LET q == Val(prev)
             tv == DivN(SumOver([a \in DOMAIN cur |-> Abs(cur[a] - Get(q, a))],
                                DOMAIN cur), 2)
         IN  IF tv > ONE THEN ONE ELSE tv

\* sum(mutate_window) / max(1, len(mutate_window))
DmOf(mw) == (SumSeq(mw) * ONE) \div Max2(1, Len(mw))

\* the weighted sum and the returned tuple of divergence_score (lines 1507-1509)
ScoreOf(c, dw, dpi, dm, snap, l1n, mw) ==
    [div |-> clip01(Mul(c.alpha_w, dw) + Mul(c.alpha_pi, dpi) + Mul(c.alpha_m, dm)),
     dw |-> dw, dpi |-> dpi, dm |-> dm,
     w0_snap |-> Some(snap), w0_l1 |-> Some(l1n), mutate_window |-> mw]

\* divergence_score once w0_snap and w0_l1 are in place (lines 1490-1509)
ScoreAgainst(c, rs, st, current_policy, mutated_flag, snap, l1n, mw) ==
    ScoreOf(c, DwOf(l1_diff_snap_vs_graph(snap, rs), l1n),
            DpiOf(st.prev_policy, current_policy), DmOf(mw), snap, l1n, mw)

\* w0_l1 with w0_snap just captured or already held (lines 1487-1489)
ScoreWithSnap(c, rs, st, current_policy, mutated_flag, snap) ==
    ScoreAgainst(c, rs, st, current_policy, mutated_flag, snap,
                 IF IsNone(st.w0_snap) THEN W0Norm(snap) ELSE Val(st.w0_l1),
                 dq_append(st.mutate_window, IF mutated_flag THEN 1 ELSE 0,
                           c.mut_window))

\* divergence_score whose w0 follows the live graph (captured on every call)
divergence_score_recapture(c, rs, st, current_policy, mutated_flag) ==
    ScoreWithSnap(c, rs, [st EXCEPT !.w0_snap = None, !.w0_l1 = None],
                  current_policy, mutated_flag, snapshot_weights(rs))

\* LiveImprinter.divergence_score: the returned (div, dw, dpi, dm) and the
\* fields it assigns (w0_snap, w0_l1, mutate_window)
divergence_score(c, rs, st, current_policy, mutated_flag) ==
    ScoreWithSnap(c, rs, st, current_policy, mutated_flag,
                  IF IsNone(st.w0_snap) THEN snapshot_weights(rs) ELSE Val(st.w0_snap))

\* lines 1522-1525: the governor's decision, ("allow", 1.0, True) without a governor
govern(c, div_score, volatility) ==
    IF IsNone(c.governor)
    THEN [mode |-> "allow", lr_scale |-> ONE, allow_mutation |-> TRUE]
    ELSE decide(Val(c.governor), div_score, volatility)

\* update_rule with the output loop running over the keys of policy instead
\* of graph.actions
update_rule_bypolicy(c, r, acts, features, policy, chosen, reward, td_error, lr_eff) ==
    LET act == r.last_act
        keep == ONE - c.decay
        dOut(a) ==
            LET adv == (IF a = chosen THEN ONE ELSE 0) - policy[a]
                grad == Mul(adv, act)
            IN  Mul(lr_eff, Mul(reward, grad) + Mul(td_error, grad))
    IN  [r EXCEPT
            !.w_out = [a \in DOMAIN r.w_out \cup DOMAIN policy |->
                        IF a \in DOMAIN policy
                        THEN soft_threshold(Mul(Get(r.w_out, a), keep) + dOut(a), c.l1)
                        ELSE r.w_out[a]],
            !.bias = soft_threshold(Mul(r.bias, keep), c.l1)]

\* update_rule computing the activation from the features of the call
update_rule_recomputed(c, r, acts, features, policy, chosen, reward, td_error, lr_eff) ==
    LET act == IF SigmoidRaises(PreAct(r, features)) THEN r.last_act
               ELSE sigmoid(PreAct(r, features))
        keep == ONE - c.decay
        dOut(a) ==
            LET adv == (IF a = chosen THEN ONE ELSE 0) - policy[a]
                grad == Mul(adv, act)
            IN  Mul(lr_eff, Mul(reward, grad) + Mul(td_error, grad))
        dIn(f) ==
            LET corr == Mul(act - ONE \div 2, features[f])
            IN  Mul(Mul(lr_eff, ONE \div 2), Mul(reward, corr) + Mul(td_error, corr))
        dBias == Mul(Mul(Mul(lr_eff, ONE \div 10), reward), act - ONE \div 2)
    IN  [r EXCEPT
            !.w_out = [a \in DOMAIN r.w_out \cup Range(acts) |->
                        IF a \in Range(acts)
                        THEN soft_threshold(Mul(Get(r.w_out, a), keep) + dOut(a), c.l1)
                        ELSE r.w_out[a]],
            !.w_in = [f \in DOMAIN r.w_in \cup DOMAIN features |->
                        IF f \in DOMAIN features
                        THEN soft_threshold(Mul(Get(r.w_in, f), keep) + dIn(f), c.l1)
                        ELSE r.w_in[f]],
            !.bias = soft_threshold(Mul(r.bias, keep) + dBias, c.l1)]

\* lines 1536-1554: the update of one rule (output edges, input edges, bias)
update_rule(c, r, acts, features, policy, chosen, reward, td_error, lr_eff) ==
    LET act == r.last_act
        keep == ONE - c.decay
        dOut(a) ==
            LET adv == (IF a = chosen THEN ONE ELSE 0) - policy[a]
                grad == Mul(adv, act)
            IN  Mul(lr_eff, Mul(reward, grad) + Mul(td_error, grad))
        dIn(f) ==
            LET corr == Mul(act - ONE \div 2, features[f])
            IN  Mul(Mul(lr_eff, ONE \div 2), Mul(reward, corr) + Mul(td_error, corr))
        dBias == Mul(Mul(Mul(lr_eff, ONE \div 10), reward), act - ONE \div 2)
    IN  [r EXCEPT
            !.w_out = [a \in DOMAIN r.w_out \cup Range(acts) |->
                        IF a \in Range(acts)
                        THEN soft_threshold(Mul(Get(r.w_out, a), keep) + dOut(a), c.l1)
                        ELSE r.w_out[a]],
            !.w_in = [f \in DOMAIN r.w_in \cup DOMAIN features |->
                        IF f \in DOMAIN features
                        THEN soft_threshold(Mul(Get(r.w_in, f), keep) + dIn(f), c.l1)
                        ELSE r.w_in[f]],
            !.bias = soft_threshold(Mul(r.bias, keep) + dBias, c.l1)]

\* the placeholder feature names of mutate
NewFeatures == {"fA", "fB", "fC"}

\* mutate nudging the drawn output weight of every rule
mutate_every_rule(rs, acts, m) ==
    [n \in DOMAIN rs |->
        [rs[n] EXCEPT !.w_out = Put(rs[n].w_out, m.action,
                                    Get(rs[n].w_out, m.action) + m.dOut)]]

\* LiveImprinter.mutate on a graph with at least one rule; m holds the draws:
\* the rule, the action and its noise, the input key (or new feature), the
\* coin and the input noise
mutate(rs, acts, m) ==
    LET r == rs[m.rule]
        out == IF Len(acts) > 0
               THEN Put(r.w_out, m.action, Get(r.w_out, m.action) + m.dOut)
               ELSE r.w_out
        inp == IF DOMAIN r.w_in # {}
               THEN (IF m.coin THEN Put(r.w_in, m.f, -r.w_in[m.f])
                     ELSE Put(r.w_in, m.f, r.w_in[m.f] + m.dIn))
               ELSE Put(r.w_in, m.f, m.dIn)
    IN  [rs EXCEPT ![m.rule] = [r EXCEPT !.w_out = out, !.w_in = inp]]

\* the update guard treating "limit" as frozen too
updates_unless_frozen(mode) == mode \notin {"quarantine", "limit"}

\* the update guard ignoring the mode
updates_always(mode) == TRUE

\* line 1535: updates are applied unless the mode is "quarantine"
updates_applied(mode) == mode # "quarantine"

\* the mutation gate without the volatility trigger
mutation_gate_novol(c, g, draw, volatility) ==
    c.allow_mutation /\ g.allow_mutation /\ draw

\* the mutation gate of lines 1557-1559, draw being random.random() < mutate_p
mutation_gate(c, g, draw, volatility) ==
    c.allow_mutation /\ g.allow_mutation /\ draw /\ volatility > MutateVolTrigger

\* the imprinter fields as one record
ImpState ==
    [stability_window |-> stability_window, mutate_window |-> mutate_window,
     w0_snap |-> w0_snap, w0_l1 |-> w0_l1, prev_policy |-> prev_policy,
     prev_snap |-> prev_snap]

\* lines 1522-1532: the governor's decision, lr_eff and td_error
HeadOf(c, policy, chosen, reward, next_value_est, sw, volatility, d1, g) ==
    [sw |-> sw, volatility |-> volatility, d1 |-> d1, g |-> g,
     lr_eff |-> Mul(c.base_lr, g.lr_scale),
     td_error |-> reward + Mul(c.td, next_value_est) - Get(policy, chosen)]

HeadGoverned(c, policy, chosen, reward, next_value_est, sw, volatility, d1) ==
    HeadOf(c, policy, chosen, reward, next_value_est, sw, volatility, d1,
           govern(c, d1.div, volatility))

HeadWithWindow(c, rs, st, policy, chosen, reward, next_value_est, sw) ==
    HeadGoverned(c, policy, chosen, reward, next_value_est, sw,
                 IF Len(sw) >= 2 THEN variance(sw) ELSE 0,
                 divergence_score(c, rs, st, policy, FALSE))

\* the locals of imprint up to the update (lines 1513-1532)
imprint_head(c, rs, st, policy, chosen, reward, next_value_est) ==
    HeadWithWindow(c, rs, st, policy, chosen, reward, next_value_est,
                   dq_append(st.stability_window, policy[chosen], StabilityMaxLen))

\* does a call with these locals reach self.mutate(graph)?
Mutating(c, h, draw) ==
    updates_applied(h.g.mode) /\ mutation_gate(c, h.g, draw, h.volatility)

\* lines 1537-1554: the update of every rule
update_rules(c, rs, acts, features, policy, chosen, reward, h) ==
    [n \in DOMAIN rs |->
        update_rule(c, rs[n], acts, features, policy, chosen, reward,
                    h.td_error, h.lr_eff)]

\* the first loop doing the whole update of every rule
update_out_loop_whole(c, rs, acts, features, policy, chosen, reward, h) ==
    update_rules(c, rs, acts, features, policy, chosen, reward, h)

\* lines 1537-1543: the loop over the rules that updates the output weights
update_out_loop(c, rs, acts, features, policy, chosen, reward, h) ==
    [n \in DOMAIN rs |->
        [rs[n] EXCEPT !.w_out = update_rule(c, rs[n], acts, features, policy, chosen,
                                            reward, h.td_error, h.lr_eff).w_out]]

\* lines 1546-1550: the loop over the rules that updates the input weights
update_in_loop(c, rs, acts, features, policy, chosen, reward, h) ==
    [n \in DOMAIN rs |->
        [rs[n] EXCEPT !.w_in = update_rule(c, rs[n], acts, features, policy, chosen,
                                           reward, h.td_error, h.lr_eff).w_in]]

\* lines 1553-1554: the loop over the rules that updates the biases
update_bias_loop(c, rs, acts, features, policy, chosen, reward, h) ==
    [n \in DOMAIN rs |->
        [rs[n] EXCEPT !.bias = update_rule(c, rs[n], acts, features, policy, chosen,
                                           reward, h.td_error, h.lr_eff).bias]]

\* the imprinter fields after the first divergence_score call
AfterHead(st, h) ==
    [st EXCEPT !.stability_window = h.sw, !.w0_snap = h.d1.w0_snap,
               !.w0_l1 = h.d1.w0_l1, !.mutate_window = h.d1.mutate_window]

PreOf(h) == Some([div |-> h.d1.div, dw |-> h.d1.dw, dpi |-> h.d1.dpi, dm |-> h.d1.dm])

\* Finish returning the divergence computed before the update
Finish_stale(rs2, st2, h, mutated, dW_step, d2) ==
    [raised |-> "none", rules |-> rs2,
     st |-> [st2 EXCEPT !.prev_snap = Some(snapshot_weights(rs2)),
                        !.mutate_window = d2.mutate_window],
     pre |-> Some([div |-> h.d1.div, dw |-> h.d1.dw, dpi |-> h.d1.dpi, dm |-> h.d1.dm]),
     rec |-> Some([mode |-> h.g.mode, lr_eff |-> h.lr_eff,
                   volatility |-> h.volatility, mutated |-> mutated,
                   div_score |-> h.d1.div, Dw |-> h.d1.dw, Dpi |-> h.d1.dpi,
                   Dm |-> h.d1.dm, dW_step |-> dW_step])]

\* lines 1575-1585: the returned record and the fields left behind
Finish(rs2, st2, h, mutated, dW_step, d2) ==
    [raised |-> "none", rules |-> rs2,
     st |-> [st2 EXCEPT !.prev_snap = Some(snapshot_weights(rs2)),
                        !.mutate_window = d2.mutate_window],
     pre |-> PreOf(h),
     rec |-> Some([mode |-> h.g.mode, lr_eff |-> h.lr_eff,
                   volatility |-> h.volatility, mutated |-> mutated,
                   div_score |-> d2.div, Dw |-> d2.dw, Dpi |-> d2.dpi, Dm |-> d2.dm,
                   dW_step |-> dW_step])]

\* imprint_tail whose divergence_score call is the only one of the step that
\* appends to the mutation window
imprint_tail_oneappend(c, st, policy, h, mutated, rs2, st2) ==
    Finish(rs2, st2, h, mutated,
           l1_diff_snap_vs_graph(IF IsNone(st.prev_snap) THEN snapshot_weights(rs2)
                                 ELSE Val(st.prev_snap), rs2),
           divergence_score(c, rs2, [st2 EXCEPT !.mutate_window = st.mutate_window],
                            policy, mutated))

\* imprint_tail recomputing the divergence before prev_policy is overwritten
imprint_tail_prevlate(c, st, policy, h, mutated, rs2, st2) ==
    Finish(rs2, st2, h, mutated,
           l1_diff_snap_vs_graph(IF IsNone(st.prev_snap) THEN snapshot_weights(rs2)
                                 ELSE Val(st.prev_snap), rs2),
           divergence_score(c, rs2, [st2 EXCEPT !.prev_policy = st.prev_policy],
                            policy, mutated))

\* lines 1563-1573: prev_policy, the per-step delta against prev_snap (taken
\* now when there is none yet) and the recomputed divergence
imprint_tail(c, st, policy, h, mutated, rs2, st2) ==
    Finish(rs2, st2, h, mutated,
           l1_diff_snap_vs_graph(IF IsNone(st.prev_snap) THEN snapshot_weights(rs2)
                                 ELSE Val(st.prev_snap), rs2),
           divergence_score(c, rs2, st2, policy, mutated))

\* imprint_mutation with prev_policy assigned inside the plasticity branch,
\* which a quarantine step skips
imprint_mutation_prevskipped(c, acts, st, policy, h, mutating, m, rs1) ==
    IF mutating /\ DOMAIN rs1 = {}
    THEN [raised |-> "IndexError", rules |-> rs1, st |-> AfterHead(st, h),
          pre |-> PreOf(h), rec |-> None]
    ELSE imprint_tail(c, st, policy, h, mutating,
                      IF mutating THEN mutate(rs1, acts, m) ELSE rs1,
                      [AfterHead(st, h) EXCEPT
                          !.prev_policy = IF updates_applied(h.g.mode)
                                          THEN Some(policy) ELSE st.prev_policy])

\* lines 1556-1561 onward, rs1 being the rules after the update
imprint_mutation(c, acts, st, policy, h, mutating, m, rs1) ==
    IF mutating /\ DOMAIN rs1 = {}
    THEN \* random.choice on an empty list (line 1589): prev_policy and
         \* prev_snap are not reached
         [raised |-> "IndexError", rules |-> rs1, st |-> AfterHead(st, h),
          pre |-> PreOf(h), rec |-> None]
    ELSE imprint_tail(c, st, policy, h, mutating,
                      IF mutating THEN mutate(rs1, acts, m) ELSE rs1,
                      [AfterHead(st, h) EXCEPT !.prev_policy = Some(policy)])

\* lines 1534-1585
imprint_body(c, rs, acts, st, features, policy, chosen, reward, draw, m, h) ==
    imprint_mutation(c, acts, st, policy, h, Mutating(c, h, draw), m,
                     IF updates_applied(h.g.mode)
                     THEN update_rules(c, rs, acts, features, policy, chosen, reward, h)
                     ELSE rs)

\* LiveImprinter.imprint: what the call raises, the rules and imprinter fields
\* it leaves, the pre-update divergence (a local) and the returned record
imprint(c, rs, acts, st, features, policy, chosen, reward, next_value_est, draw, m) ==
    IF chosen \notin DOMAIN policy
    THEN \* policy[chosen] (line 1513) raises before anything is assigned
         [raised |-> "KeyError", rules |-> rs, st |-> st, pre |-> None, rec |-> None]
    ELSE imprint_body(c, rs, acts, st, features, policy, chosen, reward, draw, m,
                      imprint_head(c, rs, st, policy, chosen, reward, next_value_est))

-----------------------------------------------------------------------------
(* bounds and inputs                                                       *)

\* calls (add_rule, forward, imprint, mutate) per run
MaxCalls == 3
\* direct calls of mutate per run
MaxMutate == 1

\* LiveImprinter() constructor defaults (line 1467)
base_lr == 1500
decay == 20
l1 == 5
td == 4000
alpha_w == 5000
alpha_pi == 4000
alpha_m == 1000
mut_window == 50

\* LiveImprinter arguments: the defaults with EthosGovernor(), and an
\* imprinter without governor (governor=None, the constructor's default and
\* the A0/A1 ablations) with div_alpha=(1.0, 1.0, 1.0) and mut_window=3
Configs ==
    {[base_lr |-> base_lr, decay |-> decay, l1 |-> l1, td |-> td,
      allow_mutation |-> TRUE, governor |-> g[1],
      alpha_w |-> g[3], alpha_pi |-> g[4], alpha_m |-> g[5],
      mut_window |-> g[2]] :
        g \in {<<Some(DefaultGovernor), mut_window, alpha_w, alpha_pi, alpha_m>>,
               <<None, 3, ONE, ONE, ONE>>}}

ActionLists == {<<"LEFT", "RIGHT">>}

\* feature vectors given to forward and imprint
FeatureInputs == {EmptyMap, [ctxA |-> -ONE, noise |-> 5000]}

\* add_rule arguments: an ordinary rule, an all-zero rule under the same name,
\* a rule with very large weights, a rule with an output key that is no action
RuleInputs ==
    {[name |-> "R_ctx_align", inputs |-> [ctxA |-> 1000],
      outputs |-> [LEFT |-> 1000, RIGHT |-> -500], bias |-> 200],
     [name |-> "R_ctx_align", inputs |-> EmptyMap, outputs |-> EmptyMap, bias |-> 0],
     [name |-> "R_noise_gate", inputs |-> [ctxA |-> 1000 * ONE],
      outputs |-> [LEFT |-> 2000 * ONE], bias |-> 0],
     [name |-> "R_noise_gate", inputs |-> EmptyMap,
      outputs |-> [LEFT |-> 500, JUMP |-> 500], bias |-> 0]}

\* policies over the actions that a caller can hand to imprint besides the
\* one forward returned
SyntheticPolicies ==
    {[LEFT |-> 9500, RIGHT |-> 500], [LEFT |-> 500, RIGHT |-> 9500],
     [LEFT |-> 3000, RIGHT |-> 7000]}

\* a policy over a larger action set than the graph's
ForeignPolicy == [LEFT |-> 500, RIGHT |-> 3000, JUMP |-> 6500]

\* every policy handed to imprint has an entry for each action of the graph
PolicyInputs ==
    SyntheticPolicies \cup (IF IsNone(fwd) THEN {} ELSE {Val(fwd).policy})

\* (policy, chosen): an action of the graph with a policy over the actions,
\* and "JUMP", which is no action of the graph, with a policy that has no such
\* entry and with one that has
ImprintArgs ==
    {<<p, "LEFT">> : p \in PolicyInputs}
    \cup {<<[LEFT |-> 9500, RIGHT |-> 500], "JUMP">>, <<ForeignPolicy, "JUMP">>}
RewardInputs == {0, ONE}

\* the least and the greatest key of a non-empty map, in a fixed order of names
KeyOrder == <<"ctxA", "fA", "fB", "fC", "noise">>
KeyAt(keys, last) ==
    LET idx == {i \in 1..Len(KeyOrder) : KeyOrder[i] \in keys}
        pick == CHOOSE i \in idx : \A j \in idx : IF last THEN j <= i ELSE i <= j
    IN  KeyOrder[pick]

\* the draws of one mutate call on rules rs: random.choice of a rule and of an
\* action, uniform(-0.2, 0.2), then either a key of w_in, the coin and
\* uniform(-0.1, 0.1), or a new feature and uniform(-0.05, 0.05).  Sampled:
\* every rule and action, one noise value, and per coin side one key
MutateDraws(rs, acts) ==
    UNION {
        {[rule |-> n, action |-> a, dOut |-> -1500, f |-> x[1], coin |-> x[2],
          dIn |-> x[3]] :
            a \in Range(acts),
            x \in IF DOMAIN rs[n].w_in # {}
                  THEN {<<KeyAt(DOMAIN rs[n].w_in, FALSE), TRUE, 0>>,
                        <<KeyAt(DOMAIN rs[n].w_in, TRUE), FALSE, 800>>}
                  ELSE {<<"fA", FALSE, 400>>, <<"fC", FALSE, -300>>}}
        : n \in DOMAIN rs}

NoDraws == [rule |-> "", action |-> "", dOut |-> 0, f |-> "", coin |-> FALSE, dIn |-> 0]

\* random.random() < mutate_p is drawn only when the flags before it hold
GateDraws(c, h) ==
    IF updates_applied(h.g.mode) /\ c.allow_mutation /\ h.g.allow_mutation
    THEN BOOLEAN ELSE {FALSE}

-----------------------------------------------------------------------------
(* the specification                                                       *)

NoCall == [fn |-> "none"]

\* what a call leaves in ret; args holds the arguments of an add_rule, forward
\* or imprint call
Ret(op, raised, chosen, pre, rec) ==
    [op |-> op, raised |-> raised, chosen |-> chosen, pre |-> pre, rec |-> rec,
     args |-> None]

Init ==
    /\ actions \in ActionLists
    /\ order = <<>>
    /\ rules = EmptyMap
    /\ cfg \in Configs
    /\ stability_window = <<>>
    /\ mutate_window = <<>>
    /\ w0_snap = None
    /\ w0_l1 = None
    /\ prev_policy = None
    /\ prev_snap = None
    /\ fwd = None
    /\ ret = Ret("init", "none", "", None, None)
    /\ nCalls = 0
    /\ nMut = 0
    /\ call = NoCall

\* graph.add_rule(name, inputs, outputs, bias)
AddRule ==
    /\ nCalls < MaxCalls
    /\ \E a \in RuleInputs :
        /\ rules' = add_rule(rules, a.name, a.inputs, a.outputs, a.bias)
        /\ order' = IF a.name \in DOMAIN rules THEN order ELSE Append(order, a.name)
        /\ ret' = [Ret("add_rule", "none", "", None, None) EXCEPT !.args = Some(a)]
    /\ nCalls' = nCalls + 1
    /\ UNCHANGED <<actions, cfg, ivars, fwd, nMut, call>>

\* graph.forward(features), whatever other call is in progress
ForwardBody ==
    /\ nCalls < MaxCalls
    /\ \E features \in FeatureInputs :
        \E rs1 \in {forward_rules(rules, order, features)} :
        \E raised \in {IF FirstRaise(rules, order, features) # 0 THEN "OverflowError"
                       ELSE IF LogitsKeyError(rs1, actions) THEN "KeyError"
                       ELSE "none"} :
            /\ rules' = rs1
            /\ fwd' = IF raised # "none" THEN fwd
                      ELSE Some([rule_acts |-> [n \in DOMAIN rs1 |-> rs1[n].last_act],
                                 logits |-> Logits(rs1, actions),
                                 policy |-> Softmax(Logits(rs1, actions))])
            /\ ret' = [Ret("forward", raised, "", None, None) EXCEPT
                          !.args = Some([features |-> features])]
    /\ nCalls' = nCalls + 1
    /\ UNCHANGED <<actions, order, cfg, ivars, nMut>>

\* graph.forward(features)
Forward == ForwardBody /\ UNCHANGED call

\* the rule_acts a caller hands to imprint with these features: what forward
\* returns for them on the weights as they are (an empty dict when it raises)
RuleActsFor(rs, features) ==
    IF \E n \in DOMAIN rs : SigmoidRaises(PreAct(rs[n], features)) THEN EmptyMap
    ELSE [n \in DOMAIN rs |-> sigmoid(PreAct(rs[n], features))]

\* the assignments of an imprint call with outcome out
ImprintLeaves(out, features, rule_acts, policy, chosen, reward) ==
    /\ rules' = out.rules
    /\ stability_window' = out.st.stability_window
    /\ mutate_window' = out.st.mutate_window
    /\ w0_snap' = out.st.w0_snap
    /\ w0_l1' = out.st.w0_l1
    /\ prev_policy' = out.st.prev_policy
    /\ prev_snap' = out.st.prev_snap
    /\ ret' = [Ret("imprint", out.raised, chosen, out.pre, out.rec) EXCEPT
                  !.args = Some([features |-> features, rule_acts |-> rule_acts,
                                 policy |-> policy, reward |-> reward])]

\* imprinter.imprint(graph, features, rule_acts, policy, chosen, reward):
\* imprint, evaluated stage by stage (rule_acts is passed and never read)
Imprint ==
    /\ nCalls < MaxCalls
    /\ \E pc \in ImprintArgs :
        \E policy \in {pc[1]}, chosen \in {pc[2]} :
        IF chosen \notin DOMAIN policy
        THEN ImprintLeaves(imprint(cfg, rules, actions, ImpState, EmptyMap, policy,
                                   chosen, 0, 0, FALSE, NoDraws),
                           EmptyMap, RuleActsFor(rules, EmptyMap), policy, chosen, 0)
        ELSE
        \E features \in FeatureInputs, reward \in RewardInputs :
        \E h \in {imprint_head(cfg, rules, ImpState, policy, chosen, reward, 0)} :
        \E draw \in GateDraws(cfg, h) :
        \E rs1 \in {IF updates_applied(h.g.mode)
                    THEN update_rules(cfg, rules, actions, features, policy, chosen,
                                      reward, h)
                    ELSE rules} :
        \E m \in IF Mutating(cfg, h, draw) /\ DOMAIN rs1 # {}
                 THEN MutateDraws(rs1, actions) ELSE {NoDraws} :
            ImprintLeaves(imprint_mutation(cfg, actions, ImpState, policy, h,
                                           Mutating(cfg, h, draw), m, rs1),
                          features, RuleActsFor(rules, features), policy, chosen, reward)
    /\ nCalls' = nCalls + 1
    /\ UNCHANGED <<actions, order, cfg, fwd, nMut, call>>

\* imprinter.mutate(graph), called directly
Mutate ==
    /\ nCalls < MaxCalls
    /\ nMut < MaxMutate
    /\ IF DOMAIN rules = {}
       THEN /\ ret' = Ret("mutate", "IndexError", "", None, None)
            /\ UNCHANGED rules
       ELSE /\ \E m \in MutateDraws(rules, actions) : rules' = mutate(rules, actions, m)
            /\ ret' = Ret("mutate", "none", "", None, None)
    /\ nCalls' = nCalls + 1
    /\ nMut' = nMut + 1
    /\ UNCHANGED <<actions, order, cfg, ivars, fwd, call>>

Next == AddRule \/ Forward \/ Imprint \/ Mutate

Spec == Init /\ [][Next]_vars

-----------------------------------------------------------------------------
(* direct calls of the pure functions                                      *)

\* soft_threshold is called on every x with |x| <= PureRange
PureRange == 12

\* divergence scores around every threshold, out-of-range ones included
ScoreInputs ==
    {t + e : t \in {0, warn_thresh, limit_thresh, quarantine_thresh, ONE},
             e \in {-1, 0, 1}}
    \cup {k * 1000 : k \in 0..10}

\* volatilities around tau_volatility
VolatilityInputs == {0, tau_volatility - 1, tau_volatility, tau_volatility + 1, 2500}

\* governor.decide(div_score, volatility) on EthosGovernor()
DecideCall ==
    /\ \E d \in ScoreInputs, v \in VolatilityInputs :
        call' = [fn |-> "decide", d |-> d, v |-> v, out |-> decide(DefaultGovernor, d, v)]
    /\ UNCHANGED <<gvars, cfg, ivars, fwd, ret, nCalls, nMut>>

\* soft_threshold(x, lam), lam >= 0
SoftThresholdCall ==
    /\ \E x \in -PureRange..PureRange, lam \in 0..(PureRange \div 2) :
        call' = [fn |-> "soft_threshold", x |-> x, lam |-> lam,
                 out |-> soft_threshold(x, lam)]
    /\ UNCHANGED <<gvars, cfg, ivars, fwd, ret, nCalls, nMut>>

NextPure == DecideCall \/ SoftThresholdCall

SpecPure == Init /\ [][NextPure]_vars

-----------------------------------------------------------------------------
(* EthosGovernor.decide and soft_threshold                                 *)

\* C1: with the default thresholds decide returns ("quarantine", 0.0, false)
\* for d >= 0.85, ("limit", 0.0, false) for 0.70 <= d < 0.85, ("warning", 0.5,
\* v < 0.02) for 0.50 <= d < 0.70 and ("allow", 1.0, v < 0.02) otherwise; so
\* every threshold is inclusive at its lower bound and mutation is never
\* permitted in limit or quarantine
C1_DecideTable ==
    call.fn = "decide" =>
        /\ call.d >= 8500 =>
            call.out = [mode |-> "quarantine", lr_scale |-> 0, allow_mutation |-> FALSE]
        /\ (call.d >= 7000 /\ call.d < 8500) =>
            call.out = [mode |-> "limit", lr_scale |-> 0, allow_mutation |-> FALSE]
        /\ (call.d >= 5000 /\ call.d < 7000) =>
            call.out = [mode |-> "warning", lr_scale |-> 5000,
                        allow_mutation |-> call.v < 200]
        /\ call.d < 5000 =>
            call.out = [mode |-> "allow", lr_scale |-> 10000,
                        allow_mutation |-> call.v < 200]
        /\ call.out.mode \in {"limit", "quarantine"} => ~call.out.allow_mutation

\* decide was called exactly on each threshold and between them, with the
\* volatility on either side of tau
C1_Witness ==
    /\ call.fn = "decide"
    /\ call.d = quarantine_thresh
    /\ call.v = tau_volatility - 1
    /\ call.out.mode = "quarantine"

\* C6: for lam >= 0, soft_threshold(x, lam) is exactly 0 when |x| <= lam and
\* sign(x) * (|x| - lam) otherwise; so |result| <= |x| and the sign never flips
C6_SoftThreshold ==
    call.fn = "soft_threshold" =>
        /\ Abs(call.x) <= call.lam => call.out = 0
        /\ Abs(call.x) > call.lam => call.out = Sgn(call.x) * (Abs(call.x) - call.lam)
        /\ Abs(call.out) <= Abs(call.x)
        /\ call.out = 0 \/ Sgn(call.out) = Sgn(call.x)

\* soft_threshold shrank a negative x beyond a positive lam
C6_Witness ==
    /\ call.fn = "soft_threshold"
    /\ call.x < -call.lam
    /\ call.lam > 0
    /\ call.out = call.x + call.lam

-----------------------------------------------------------------------------
(* LiveImprinter.imprint                                                   *)

\* the step is a call of imprint
ImprintStep == nCalls' = nCalls + 1 /\ ret'.op = "imprint"
\* the last call was an imprint that returned a record
ImprintReturned == ret.op = "imprint" /\ ret.raised = "none"
\* the last call was the first imprint to get past its first line, and it returned
FirstImprintReturned == ImprintReturned /\ Len(stability_window) = 1

\* bias, input weights and output weights of every rule
Weights(rs) ==
    [n \in DOMAIN rs |->
        [bias |-> rs[n].bias, w_in |-> rs[n].w_in, w_out |-> rs[n].w_out]]

\* no weight has changed since the snapshot of the last returned imprint
Synced == IsNone(prev_snap) \/ l1_diff_snap_vs_graph(Val(prev_snap), rules) = 0

\* C2: with EthosGovernor() installed, an imprint call whose start-of-step
\* divergence score is >= 0.85 changes no bias, input weight or output weight,
\* performs no mutation and returns dW_step == 0; the latter after any earlier
\* forward / imprint calls, which leave the weights as the last snapshot has them
C2_QuarantineFreezes ==
    [][ /\ ( /\ ImprintStep
             /\ cfg.governor = Some(DefaultGovernor)
             /\ ~IsNone(ret'.pre)
             /\ Val(ret'.pre).div >= 8500 )
            => /\ ret'.raised = "none"
               /\ Weights(rules') = Weights(rules)
               /\ ~Val(ret'.rec).mutated
               /\ Synced => Val(ret'.rec).dW_step = 0
        /\ (Synced /\ nCalls' # nCalls /\ ret'.op \in {"forward", "imprint"})
            => Synced'
      ]_vars

\* a governed imprint returned from quarantine on a graph with non-zero weights
C2_Witness ==
    /\ ImprintReturned
    /\ cfg.governor = Some(DefaultGovernor)
    /\ Val(ret.pre).div >= 8500
    /\ Val(ret.rec).mode = "quarantine"
    /\ Val(ret.rec).dW_step = 0
    /\ \E n \in DOMAIN rules : rules[n].bias # 0

\* C3: in every record returned by imprint div_score, Dw, Dpi and Dm lie in
\* [0, 1] and lr_eff >= 0
C3_RecordRanges ==
    ImprintReturned =>
        /\ Val(ret.rec).div_score \in 0..ONE
        /\ Val(ret.rec).Dw \in 0..ONE
        /\ Val(ret.rec).Dpi \in 0..ONE
        /\ Val(ret.rec).Dm \in 0..ONE
        /\ Val(ret.rec).lr_eff >= 0

\* a record of a mutating step whose drift and score both sit on the cap
C3_Witness ==
    /\ ImprintReturned
    /\ Val(ret.rec).mutated
    /\ Val(ret.rec).Dm > 0
    /\ Val(ret.rec).Dw = ONE
    /\ Val(ret.rec).div_score = ONE

\* C4 as stated: the record of the very first imprint call has Dw == 0 and
\* Dpi == 0
C4_FirstRecordZero ==
    FirstImprintReturned => (Val(ret.rec).Dw = 0 /\ Val(ret.rec).Dpi = 0)

\* C4, amended: on the first imprint call the start-of-step Dw and Dpi are 0
\* and the record has Dpi == 0; the record's Dw is recomputed after the update
\* and is the call's own weight change relative to w0 (capped at 1), hence 0
\* exactly when the update moved no weight by a measurable amount
C4_FirstCallDrift ==
    [][ (ImprintStep /\ stability_window = <<>> /\ ret'.raised = "none")
        => /\ Val(ret'.pre).dw = 0
           /\ Val(ret'.pre).dpi = 0
           /\ Val(ret'.rec).Dpi = 0
           /\ Val(ret'.rec).Dw =
                DwOf(l1_diff_snap_vs_graph(snapshot_weights(rules), rules'),
                     W0Norm(snapshot_weights(rules)))
           /\ Weights(rules') = Weights(rules) => Val(ret'.rec).Dw = 0
      ]_vars

\* the first imprint call returned a record with Dw > 0
C4_Witness ==
    /\ FirstImprintReturned
    /\ Val(ret.rec).Dw > 0
    /\ Val(ret.rec).Dpi = 0
    /\ Val(ret.pre).dw = 0

\* C5: the record's mode and lr_eff are what the governor returns for the
\* start-of-step score and the volatility, lr_eff = base_lr * scale; a
\* start-of-step score in [0.70, 0.85) gives "limit" and lr_eff == 0; and the
\* record's div_score, Dw, Dpi, Dm are those recomputed after the update, from
\* the weights, the previous policy and the mutation window the call leaves
C5_RecordFollowsGovernor ==
    (ImprintReturned /\ ~IsNone(cfg.governor)) =>
        /\ Val(ret.rec).mode =
              decide(Val(cfg.governor), Val(ret.pre).div, Val(ret.rec).volatility).mode
        /\ Val(ret.rec).lr_eff =
              Mul(cfg.base_lr,
                  decide(Val(cfg.governor), Val(ret.pre).div,
                         Val(ret.rec).volatility).lr_scale)
        /\ (Val(ret.pre).div >= 7000 /\ Val(ret.pre).div < 8500)
              => (Val(ret.rec).mode = "limit" /\ Val(ret.rec).lr_eff = 0)
        /\ Val(ret.rec).Dw =
              DwOf(l1_diff_snap_vs_graph(Val(w0_snap), rules), Val(w0_l1))
        /\ Val(ret.rec).Dpi = DpiOf(prev_policy, Val(prev_policy))
        /\ Val(ret.rec).Dm = DmOf(mutate_window)
        /\ Val(ret.rec).div_score =
              clip01(Mul(cfg.alpha_w, Val(ret.rec).Dw)
                     + Mul(cfg.alpha_pi, Val(ret.rec).Dpi)
                     + Mul(cfg.alpha_m, Val(ret.rec).Dm))

\* an imprint in "limit": the start-of-step score in [0.70, 0.85), lr_eff 0,
\* and a recorded score that differs from the one that drove the decision
C5_Witness ==
    /\ ImprintReturned
    /\ ~IsNone(cfg.governor)
    /\ Val(ret.pre).div >= 7000
    /\ Val(ret.pre).div < 8500
    /\ Val(ret.rec).mode = "limit"
    /\ Val(ret.rec).lr_eff = 0
    /\ Val(ret.rec).div_score # Val(ret.pre).div

\* C8 as stated: an imprint call whose chosen action is not in the graph's
\* action set fails with an error and leaves the weights, both windows, w0,
\* the previous policy and the previous snapshot unchanged
C8_InvalidChosenFailsFast ==
    [][ (ImprintStep /\ ret'.chosen \notin Range(actions))
        => (ret'.raised # "none" /\ UNCHANGED <<rules, ivars>>) ]_vars

-----------------------------------------------------------------------------
(* LogicGraph.forward and the graph's keys                                 *)

\* every rule's output-weight keys are actions of the graph
OutputKeysInActions == \A n \in DOMAIN rules : DOMAIN rules[n].w_out \subseteq Range(actions)

\* C9 as stated, for graphs whose output keys are actions: forward returns a
\* policy with one entry per action, each strictly between 0 and 1 (there are
\* two actions), summing to 1 up to the rounding of each entry, and uniform
\* when all logits are equal
C9_ForwardPolicy ==
    (ret.op = "forward" /\ OutputKeysInActions) =>
        /\ ret.raised = "none"
        /\ DOMAIN Val(fwd).policy = Range(actions)
        /\ \A a \in Range(actions) :
              Val(fwd).policy[a] > 0 /\ Val(fwd).policy[a] < ONE
        /\ Abs(ONE - SumOver(Val(fwd).policy, Range(actions))) <= Len(actions)
        /\ (\A a, b \in Range(actions) : Val(fwd).logits[a] = Val(fwd).logits[b])
              => \A a, b \in Range(actions) : Val(fwd).policy[a] = Val(fwd).policy[b]

\* C10: a forward, imprint or mutate call on a graph whose output-weight keys
\* are all actions leaves them so, and changes neither the action list nor
\* the set of rule names
C10_OutputKeysStay ==
    [][ (nCalls' # nCalls /\ ret'.op \in {"forward", "imprint", "mutate"})
        => /\ OutputKeysInActions => OutputKeysInActions'
           /\ actions' = actions
           /\ DOMAIN rules' = DOMAIN rules
      ]_vars

\* imprint updated a rule for a chosen name outside the action set, and the
\* rule's output keys are exactly the actions
C10_Witness ==
    /\ ImprintReturned
    /\ ret.chosen = "JUMP"
    /\ OutputKeysInActions
    /\ \E n \in DOMAIN rules : DOMAIN rules[n].w_out = Range(actions)

-----------------------------------------------------------------------------
(* frame of forward, failures of imprint, the "limit" mode, dW_step        *)

\* the step is a call of forward
ForwardStep == nCalls' = nCalls + 1 /\ ret'.op = "forward"
\* the step is a call of imprint that returned a record
ImprintReturns == ImprintStep /\ ret'.raised = "none"
\* the arguments of the last imprint call
Args == Val(ret.args)

\* C11 as stated: forward changes no bias, input-weight map or output-weight
\* map, nor the rule set or the action list, and a second forward with the
\* same features returns the same policy
C11_ForwardPureRead ==
    [][ ForwardStep =>
          /\ Weights(rules') = Weights(rules)
          /\ actions' = actions
          /\ DOMAIN rules' = DOMAIN rules
          /\ \A f \in FeatureInputs :
                (FirstRaise(rules, order, f) = 0 /\ ~LogitsKeyError(rules, actions))
                => Softmax(Logits(forward_rules(forward_rules(rules, order, f),
                                                order, f), actions))
                   = Softmax(Logits(forward_rules(rules, order, f), actions))
      ]_vars

\* C12 as stated: an imprint call with a policy over the graph's actions and
\* a chosen action of the graph never raises
C12_ValidImprintNeverRaises ==
    ( /\ ret.op = "imprint"
      /\ ret.chosen \in Range(actions)
      /\ DOMAIN Args.policy = Range(actions) )
    => ret.raised = "none"

\* C13 as stated: a step in mode "limit" (with a chosen action of the graph)
\* leaves every bias, input weight and output weight unchanged and has
\* dW_step == 0
C13_LimitFreezes ==
    [][ (ImprintReturns /\ ret'.chosen \in Range(actions)
                        /\ Val(ret'.rec).mode = "limit")
        => (Weights(rules') = Weights(rules) /\ Val(ret'.rec).dW_step = 0) ]_vars

\* C13, amended: a step in mode "limit" runs the update with lr_eff == 0: every
\* bias, every output weight of an action and every input weight of a feature
\* of the step becomes soft_threshold(w * (1 - decay), l1), the other input
\* weights stay, nothing is mutated, and after earlier forward / imprint calls
\* dW_step is the size of that shrink (0 on the first call), measured over the
\* rules that the snapshot of the previous imprint call holds
C13_LimitShrinks ==
    [][ (ImprintReturns /\ Val(ret'.rec).mode = "limit")
        => /\ Val(ret'.rec).lr_eff = 0
           /\ ~Val(ret'.rec).mutated
           /\ DOMAIN rules' = DOMAIN rules
           /\ \A n \in DOMAIN rules :
                /\ rules'[n].bias =
                      soft_threshold(Mul(rules[n].bias, ONE - cfg.decay), cfg.l1)
                /\ DOMAIN rules'[n].w_out = DOMAIN rules[n].w_out \cup Range(actions)
                /\ \A a \in DOMAIN rules'[n].w_out :
                      rules'[n].w_out[a] =
                          IF a \in Range(actions)
                          THEN soft_threshold(Mul(Get(rules[n].w_out, a),
                                                  ONE - cfg.decay), cfg.l1)
                          ELSE rules[n].w_out[a]
                /\ DOMAIN rules'[n].w_in =
                      DOMAIN rules[n].w_in \cup DOMAIN Val(ret'.args).features
                /\ \A f \in DOMAIN rules'[n].w_in :
                      rules'[n].w_in[f] =
                          IF f \in DOMAIN Val(ret'.args).features
                          THEN soft_threshold(Mul(Get(rules[n].w_in, f),
                                                  ONE - cfg.decay), cfg.l1)
                          ELSE rules[n].w_in[f]
           /\ Val(ret'.rec).dW_step =
                 IF IsNone(prev_snap) THEN 0
                 ELSE l1_diff_snap_vs_graph(Val(prev_snap), rules')
           /\ (Synced /\ ~IsNone(prev_snap) /\ DOMAIN Val(prev_snap).bias = DOMAIN rules)
                 => Val(ret'.rec).dW_step =
                       l1_diff_snap_vs_graph(snapshot_weights(rules), rules')
      ]_vars

\* a "limit" step that shrank the weights: dW_step > 0
C13_Witness ==
    /\ ImprintReturned
    /\ Val(ret.rec).mode = "limit"
    /\ Val(ret.rec).lr_eff = 0
    /\ Val(ret.rec).dW_step > 0

\* C14 as stated: in every imprint call, the first included, dW_step is the
\* L1 distance between the weights at the end of the call and the weights at
\* its start
C14_StepDeltaFromStart ==
    [][ ImprintReturns
        => Val(ret'.rec).dW_step =
              l1_diff_snap_vs_graph(snapshot_weights(rules), rules') ]_vars

\* C15 as stated: after n imprint calls the mutation window has
\* min(n, capacity) entries, the last is 1 iff the step mutated, and the
\* record's Dm is the fraction of 1 entries
C15_OneEntryPerStep ==
    ImprintReturned =>
        /\ Len(mutate_window) = Min2(Len(stability_window), cfg.mut_window)
        /\ (mutate_window[Len(mutate_window)] = 1) <=> Val(ret.rec).mutated
        /\ Val(ret.rec).Dm = DmOf(mutate_window)

-----------------------------------------------------------------------------
(* a long-running imprinter: the rolling windows at capacity               *)

\* imprint calls already made when the exploration starts
WarmCalls == 24

\* LiveImprinter(governor=EthosGovernor())
GovernedConfig == CHOOSE c \in Configs : c.governor = Some(DefaultGovernor)

\* the policy of the k-th of those calls: the caller alternates between two
\* opposite policies
WarmPolicy(k) ==
    IF k % 2 = 1 THEN [LEFT |-> 9500, RIGHT |-> 500] ELSE [LEFT |-> 500, RIGHT |-> 9500]

\* the fresh imprinter fields (LiveImprinter.__init__)
FreshImp ==
    [stability_window |-> <<>>, mutate_window |-> <<>>, w0_snap |-> None,
     w0_l1 |-> None, prev_policy |-> None, prev_snap |-> None]

\* imprint(graph, {}, rule_acts, WarmPolicy(k), "LEFT", 1.0) on the outcome prev
\* of the calls before it
WarmStep(prev, k) ==
    imprint(GovernedConfig, prev.rules, <<"LEFT", "RIGHT">>, prev.st, EmptyMap,
            WarmPolicy(k), "LEFT", ONE, 0, FALSE, NoDraws)

\* graph.add_rule("R_ctx_align") on a new graph, then the first such call: it
\* moves the bias of the all-zero rule, so that Dw is 1.0 from then on
WarmFirst ==
    WarmStep([rules |-> [R_ctx_align |-> add_rule_node(EmptyMap, EmptyMap, 0)],
              st |-> FreshImp], 1)

\* the imprinter after j >= 1 such calls.  Every call after the first starts
\* with Dw = 1.0 and Dpi = 0.9, a score of 0.86, and is quarantined: the graph,
\* w0 and prev_snap stay as the first call left them, the volatility window
\* holds the j values policy["LEFT"], the mutation window two zeros per call
WarmAfter(first, j) ==
    [rules |-> first.rules,
     st |-> [first.st EXCEPT
               !.stability_window = [i \in 1..j |-> WarmPolicy(i).LEFT],
               !.mutate_window =
                   [i \in 1..Min2(2 * j, GovernedConfig.mut_window) |-> 0],
               !.prev_policy = Some(WarmPolicy(j))]]

\* the outcome of the last of k >= 2 such calls
WarmRun(k) == WarmStep(WarmAfter(WarmFirst, k - 1), k)

\* the state such a run has reached
WarmState(w) ==
    /\ actions = <<"LEFT", "RIGHT">>
    /\ order = <<"R_ctx_align">>
    /\ rules = w.rules
    /\ cfg = GovernedConfig
    /\ stability_window = w.st.stability_window
    /\ mutate_window = w.st.mutate_window
    /\ w0_snap = w.st.w0_snap
    /\ w0_l1 = w.st.w0_l1
    /\ prev_policy = w.st.prev_policy
    /\ prev_snap = w.st.prev_snap
    /\ fwd = None
    /\ ret = [Ret("imprint", w.raised, "LEFT", w.pre, w.rec) EXCEPT
                !.args = Some([features |-> EmptyMap,
                               rule_acts |-> RuleActsFor(w.rules, EmptyMap),
                               policy |-> WarmPolicy(WarmCalls), reward |-> ONE])]
    /\ nCalls = 0
    /\ nMut = 0
    /\ call = NoCall

\* a new graph and imprinter, or the imprinter after WarmCalls calls
InitWarm == Init \/ WarmState(WarmRun(WarmCalls))

SpecWarm == InitWarm /\ [][Next]_vars

-----------------------------------------------------------------------------
(* the volatility window                                                   *)

\* sum((x - m)^2) / (n - 1): the sample variance of at least two values
SampleVarAbout(seq, m) ==
    DivN(SumSeq([i \in 1..Len(seq) |-> Mul(seq[i] - m, seq[i] - m)]), Len(seq) - 1)
SampleVariance(seq) == SampleVarAbout(seq, DivN(SumSeq(seq), Len(seq)))

\* the imprint call of this step got past policy[chosen] (line 1513)
ImprintRuns == ImprintStep /\ ret'.raised # "KeyError"

\* C16: every imprint call appends policy[chosen] and nothing else to the
\* volatility window, in every mode; the window never holds more than 25
\* values and drops the oldest first; the record's volatility is 0 with fewer
\* than 2 samples and otherwise the population variance (mean squared
\* deviation from the mean, divisor n) of the window
C16_VolatilityWindow ==
    [][ /\ ImprintRuns =>
            /\ stability_window' =
                  Append(IF Len(stability_window) < 25 THEN stability_window
                         ELSE Tail(stability_window),
                         Val(ret'.args).policy[ret'.chosen])
            /\ Len(stability_window') <= 25
            /\ ret'.raised = "none" =>
                  Val(ret'.rec).volatility =
                      IF Len(stability_window') < 2 THEN 0
                      ELSE variance(stability_window')
        /\ ~ImprintRuns => stability_window' = stability_window
      ]_vars

\* C16 as stated: the same, with the sample variance (divisor n - 1)
C16_SampleVariance ==
    [][ ImprintRuns =>
            /\ stability_window' =
                  Append(IF Len(stability_window) < 25 THEN stability_window
                         ELSE Tail(stability_window),
                         Val(ret'.args).policy[ret'.chosen])
            /\ Len(stability_window') <= 25
            /\ ret'.raised = "none" =>
                  Val(ret'.rec).volatility =
                      IF Len(stability_window') < 2 THEN 0
                      ELSE SampleVariance(stability_window')
      ]_vars

\* a quarantine or limit step appended to the full window: the oldest value,
\* 0.95, is gone and the newest is the step's policy[chosen]
C16_Witness ==
    /\ ImprintReturned
    /\ nCalls >= 2
    /\ Len(stability_window) = 25
    /\ Len(mutate_window) = 50
    /\ stability_window[1] = 500
    /\ stability_window[25] = Args.policy[ret.chosen]
    /\ Val(ret.rec).mode \in {"limit", "quarantine"}
    /\ Val(ret.rec).volatility > 0

-----------------------------------------------------------------------------
(* structural mutation inside imprint                                      *)

\* the rules after the weight updates of an imprint call with arguments a
\* and locals h, before any mutation
UpdatedRules(a, chosen, h) ==
    IF h.g.mode # "quarantine"
    THEN update_rules(cfg, rules, actions, a.features, a.policy, chosen, a.reward, h)
    ELSE rules

\* after is rs1 with exactly one mutation applied
MutatedOnce(rs1, after) ==
    \E m \in MutateDraws(rs1, actions) : after = mutate(rs1, actions, m)

-----------------------------------------------------------------------------
(* the weight updates of imprint                                           *)

\* td_error of an imprint call with arguments a (next_value_est = 0)
TdError(a, chosen) == a.reward - Get(a.policy, chosen)

\* the delta of an input weight for feature value x, activation act
DeltaIn(a, chosen, lr_eff, act, x) ==
    Mul(Mul(lr_eff, ONE \div 2),
        Mul(a.reward, Mul(act - ONE \div 2, x))
        + Mul(TdError(a, chosen), Mul(act - ONE \div 2, x)))

\* the delta of the output weight to action b
DeltaOut(a, chosen, lr_eff, act, b) ==
    Mul(lr_eff,
        Mul(a.reward, Mul((IF b = chosen THEN ONE ELSE 0) - a.policy[b], act))
        + Mul(TdError(a, chosen),
              Mul((IF b = chosen THEN ONE ELSE 0) - a.policy[b], act)))

\* new = soft_threshold(old * (1 - decay) + delta, lambda)
DecayShrink(old, delta) == soft_threshold(Mul(old, ONE - cfg.decay) + delta, cfg.l1)

\* C18 as stated: in a non-quarantine imprint step (without mutation) every
\* input weight a rule has, every output weight of every action and every
\* bias becomes soft_threshold(old * (1 - decay) + delta, lambda), the delta
\* of an input weight being 0 when its feature is not in the feature vector
C18_EveryWeightDecays ==
    [][ ( /\ ImprintReturns
          /\ Val(ret'.rec).mode # "quarantine"
          /\ ~Val(ret'.rec).mutated )
        => \A n \in DOMAIN rules :
              /\ \A f \in DOMAIN rules[n].w_in :
                    rules'[n].w_in[f] =
                        DecayShrink(rules[n].w_in[f],
                                    DeltaIn(Val(ret'.args), ret'.chosen,
                                            Val(ret'.rec).lr_eff, rules[n].last_act,
                                            Get(Val(ret'.args).features, f)))
              /\ \A b \in Range(actions) :
                    rules'[n].w_out[b] =
                        DecayShrink(Get(rules[n].w_out, b),
                                    DeltaOut(Val(ret'.args), ret'.chosen,
                                             Val(ret'.rec).lr_eff, rules[n].last_act, b))
              /\ rules'[n].bias =
                    DecayShrink(rules[n].bias,
                                Mul(Mul(Mul(Val(ret'.rec).lr_eff, ONE \div 10),
                                        Val(ret'.args).reward),
                                    rules[n].last_act - ONE \div 2))
      ]_vars

-----------------------------------------------------------------------------
(* the birth snapshot                                                      *)

\* C19: w0 and its L1 normalizer are captured by the first imprint call that
\* gets past its first line, from the weights as they are before that call's
\* update; no other step captures them, and once captured no forward, imprint,
\* mutate or add_rule step changes them, whatever happens to the live weights
C19_BirthSnapshotFrozen ==
    [][ /\ ~IsNone(w0_snap) => (w0_snap' = w0_snap /\ w0_l1' = w0_l1)
        /\ (IsNone(w0_snap) /\ ImprintRuns)
              => /\ w0_snap' = Some(snapshot_weights(rules))
                 /\ w0_l1' = Some(l1_norm_snapshot(snapshot_weights(rules)))
        /\ (IsNone(w0_snap) /\ ~ImprintRuns)
              => (IsNone(w0_snap') /\ IsNone(w0_l1'))
      ]_vars

\* a direct mutate after the capture: the live weights differ from w0
C19_Witness ==
    /\ ~IsNone(w0_snap)
    /\ Val(w0_l1) > 0
    /\ ret.op = "mutate"
    /\ ret.raised = "none"
    /\ l1_diff_snap_vs_graph(Val(w0_snap), rules) > 0

-----------------------------------------------------------------------------
(* the policy shift Dpi and the previous policy                            *)

\* half the L1 distance between two policies as vectors over all their keys,
\* capped at 1.0
HalfL1(p, q) ==
    Min2(ONE, DivN(SumOver([a \in DOMAIN p \cup DOMAIN q |-> Abs(Get(p, a) - Get(q, a))],
                           DOMAIN p \cup DOMAIN q), 2))

\* an imprint call with a chosen action of the graph and a policy over the
\* graph's actions
ValidCall(r) ==
    /\ r.op = "imprint"
    /\ r.chosen \in Range(actions)
    /\ DOMAIN Val(r.args).policy = Range(actions)

\* C20 as stated, for valid imprint calls that directly follow a valid
\* imprint call: the Dpi that drives the governor is half the L1 distance
\* between the call's policy and the policy passed to the call before it,
\* capped at 1.0, and every call leaves its policy as the previous policy
C20_DpiFromPreviousCall ==
    [][ (ImprintStep /\ ValidCall(ret'))
        => /\ prev_policy' = Some(Val(ret'.args).policy)
           /\ ValidCall(ret)
                => Val(ret'.pre).dpi = HalfL1(Val(ret'.args).policy, Args.policy)
      ]_vars

-----------------------------------------------------------------------------
(* LogicGraph.add_rule under an existing name                              *)

AddRuleStep == nCalls' = nCalls + 1 /\ ret'.op = "add_rule"

\* C21: add_rule never raises; the node stored under the name has the bias,
\* input weights and output weights of the call and last_act 0.0, whatever
\* node the name had before; every other rule is untouched; under an existing
\* name the set of rules and their order stay as they are
C21_AddRuleOverwrites ==
    [][ AddRuleStep
        => /\ ret'.raised = "none"
           /\ DOMAIN rules' = DOMAIN rules \cup {Val(ret'.args).name}
           /\ rules'[Val(ret'.args).name] =
                 [bias |-> Val(ret'.args).bias, w_in |-> Val(ret'.args).inputs,
                  w_out |-> Val(ret'.args).outputs, last_act |-> 0]
           /\ \A n \in DOMAIN rules \ {Val(ret'.args).name} : rules'[n] = rules[n]
           /\ Val(ret'.args).name \in DOMAIN rules
                 => (DOMAIN rules' = DOMAIN rules /\ order' = order)
      ]_vars

\* a rule that forward has activated and imprint has updated is replaced: the
\* last snapshot still has the old weights under the name
C21_Witness ==
    /\ ret.op = "add_rule"
    /\ ~IsNone(prev_snap)
    /\ Args.name \in DOMAIN Val(prev_snap).bias
    /\ Val(prev_snap).w_in[Args.name] # rules[Args.name].w_in
    /\ rules[Args.name].w_in = Args.inputs
    /\ Len(order) = 1

-----------------------------------------------------------------------------
(* forward on a rule with an output weight for a name that is no action    *)

\* C22 as stated: when some rule has an output weight under a name outside
\* the action set, a forward call (one in which sigmoid does not overflow)
\* completes, and the policy it returns has exactly the actions as keys
C22_ExtraKeysTolerated ==
    (ret.op = "forward" /\ ~OutputKeysInActions /\ ret.raised # "OverflowError")
        => /\ ret.raised = "none"
           /\ ~IsNone(fwd)
           /\ DOMAIN Val(fwd).policy = Range(actions)

-----------------------------------------------------------------------------
(* the frame of LiveImprinter.mutate                                       *)

MutateStep == nCalls' = nCalls + 1 /\ ret'.op = "mutate"

\* the keys on which two weight maps differ, a key only one of them has included
DiffKeys(m0, m1) ==
    {k \in DOMAIN m0 \cup DOMAIN m1 :
        k \notin DOMAIN m0 \/ k \notin DOMAIN m1 \/ m0[k] # m1[k]}

\* the bounds of uniform(-0.1, 0.1) and uniform(-0.05, 0.05) in mutate
PerturbMax == 1000
NewEdgeMax == 500

\* w_in of a rule before and after one mutation
InputMutated(w, w2) ==
    IF DOMAIN w # {}
    THEN /\ DOMAIN w2 = DOMAIN w
         /\ Cardinality(DiffKeys(w, w2)) <= 1
         /\ \A f \in DiffKeys(w, w2) : w2[f] = -w[f] \/ Abs(w2[f] - w[f]) <= PerturbMax
    ELSE \E f \in NewFeatures : DOMAIN w2 = {f} /\ Abs(w2[f]) <= NewEdgeMax

\* C23: a direct mutate call leaves the action list, the rule set and its
\* order unchanged; on a graph with rules it touches exactly one rule: at most
\* one output weight, of an action of the graph, and at most one input weight
\* (an existing one negated or perturbed, or one new edge to a placeholder
\* feature when the rule had no input weight), its bias and last_act and every
\* other rule staying as they were; on a graph without rules it changes nothing
C23_MutateTouchesOneRule ==
    [][ MutateStep
        => /\ actions' = actions
           /\ order' = order
           /\ DOMAIN rules' = DOMAIN rules
           /\ IF DOMAIN rules = {} THEN rules' = rules
              ELSE \E n \in DOMAIN rules :
                     /\ \A k \in DOMAIN rules \ {n} : rules'[k] = rules[k]
                     /\ rules'[n].bias = rules[n].bias
                     /\ rules'[n].last_act = rules[n].last_act
                     /\ DOMAIN rules[n].w_out \subseteq DOMAIN rules'[n].w_out
                     /\ Cardinality(DiffKeys(rules[n].w_out, rules'[n].w_out)) <= 1
                     /\ DiffKeys(rules[n].w_out, rules'[n].w_out) \subseteq Range(actions)
                     /\ InputMutated(rules[n].w_in, rules'[n].w_in)
      ]_vars

\* a mutation of one of two rules that created a new edge to a placeholder
\* feature and nudged an output weight
C23_Witness ==
    /\ ret.op = "mutate"
    /\ ret.raised = "none"
    /\ Len(order) = 2
    /\ \E n \in DOMAIN rules :
          /\ DOMAIN rules[n].w_in # {}
          /\ DOMAIN rules[n].w_in \subseteq NewFeatures
          /\ \E a \in Range(actions) : a \in DOMAIN rules[n].w_out /\ rules[n].w_out[a] < 0

-----------------------------------------------------------------------------
(* forward and imprint on one graph from two threads, without a lock       *)

\* an imprint call in progress: its arguments, the locals of its head, the
\* rules and imprinter fields it started from, the loops it has completed
\* (0: none, 1: output weights, 2: input weights, 3: biases) and whether a
\* forward call has run since it started
InFlight(features, policy, chosen, reward, h, stage) ==
    [fn |-> "imprint", features |-> features, policy |-> policy, chosen |-> chosen,
     reward |-> reward, h |-> h, st0 |-> ImpState, rs0 |-> rules, stage |-> stage,
     reads |-> FALSE]

\* imprint up to the first update loop (lines 1513-1535)
ImprintBegin ==
    /\ call.fn = "none"
    /\ nCalls < MaxCalls
    /\ \E pc \in ImprintArgs, features \in FeatureInputs, reward \in RewardInputs :
        \E policy \in {pc[1]}, chosen \in {pc[2]} :
        /\ chosen \in DOMAIN policy
        /\ \E h \in {imprint_head(cfg, rules, ImpState, policy, chosen, reward, 0)} :
            /\ call' = InFlight(features, policy, chosen, reward, h,
                                IF updates_applied(h.g.mode) THEN 0 ELSE 3)
            /\ stability_window' = AfterHead(ImpState, h).stability_window
            /\ mutate_window' = AfterHead(ImpState, h).mutate_window
            /\ w0_snap' = AfterHead(ImpState, h).w0_snap
            /\ w0_l1' = AfterHead(ImpState, h).w0_l1
    /\ nCalls' = nCalls + 1
    /\ UNCHANGED <<gvars, cfg, prev_policy, prev_snap, fwd, ret, nMut>>

\* the next of the three update loops, on the rules as they are now
ImprintAdvance ==
    /\ call.fn = "imprint"
    /\ call.stage < 3
    /\ rules' = IF call.stage = 0
                THEN update_out_loop(cfg, rules, actions, call.features, call.policy,
                                     call.chosen, call.reward, call.h)
                ELSE IF call.stage = 1
                THEN update_in_loop(cfg, rules, actions, call.features, call.policy,
                                    call.chosen, call.reward, call.h)
                ELSE update_bias_loop(cfg, rules, actions, call.features, call.policy,
                                      call.chosen, call.reward, call.h)
    /\ call' = [call EXCEPT !.stage = call.stage + 1]
    /\ UNCHANGED <<actions, order, cfg, ivars, fwd, ret, nCalls, nMut>>

\* the rest of imprint (lines 1556-1585)
ImprintEnd ==
    /\ call.fn = "imprint"
    /\ call.stage = 3
    /\ \E draw \in GateDraws(cfg, call.h) :
       \E m \in IF Mutating(cfg, call.h, draw) /\ DOMAIN rules # {}
                THEN MutateDraws(rules, actions) ELSE {NoDraws} :
          ImprintLeaves(imprint_mutation(cfg, actions, call.st0, call.policy, call.h,
                                         Mutating(cfg, call.h, draw), m, rules),
                        call.features, RuleActsFor(call.rs0, call.features),
                        call.policy, call.chosen, call.reward)
    /\ call' = NoCall
    /\ UNCHANGED <<actions, order, cfg, fwd, nCalls, nMut>>

\* graph.forward(features) from another thread while imprint is in progress
ForwardInFlight ==
    /\ call.fn = "imprint"
    /\ ForwardBody
    /\ call' = [call EXCEPT !.reads = TRUE]

\* a whole call while no imprint call is in progress
Serial == call.fn = "none" /\ Next

NextShared ==
    \/ Serial
    \/ ImprintBegin
    \/ ImprintAdvance
    \/ ImprintEnd
    \/ ForwardInFlight

SpecShared == Init /\ [][NextShared]_vars

\* the rules a whole update of the call in progress makes of the rules it
\* started from
WholeUpdate ==
    IF updates_applied(call.h.g.mode)
    THEN update_rules(cfg, call.rs0, actions, call.features, call.policy, call.chosen,
                      call.reward, call.h)
    ELSE call.rs0

\* what imprint, run as one step from where the call in progress started,
\* can leave
SerialOutcomes ==
    {imprint(cfg, call.rs0, actions, call.st0, call.features, call.policy, call.chosen,
             call.reward, 0, draw, m) :
        draw \in BOOLEAN,
        m \in (IF DOMAIN call.rs0 # {} THEN MutateDraws(WholeUpdate, actions) ELSE {})
              \cup {NoDraws}}

\* C24: an imprint call during which no forward call runs leaves what imprint
\* run as one step leaves, so serialized forward calls see the weights either
\* before or after the whole update; a forward call that runs between two of
\* the update loops reads output weights that are already updated together
\* with biases (and, before the second loop, input weights) that are not
C24_PartialWriteVisible ==
    [][ /\ (call.fn = "imprint" /\ call'.fn = "none" /\ ~call.reads)
            => \E out \in SerialOutcomes :
                  /\ rules' = out.rules
                  /\ ImpState' = out.st
                  /\ ret'.raised = out.raised
                  /\ ret'.rec = out.rec
        /\ (call.fn = "imprint" /\ ~call.reads /\ call.stage \in {1, 2}
                                 /\ call'.fn = "imprint" /\ call'.reads)
            => \A n \in DOMAIN rules :
                  /\ rules[n].w_out = WholeUpdate[n].w_out
                  /\ rules[n].bias = call.rs0[n].bias
                  /\ rules[n].w_in = IF call.stage = 1 THEN call.rs0[n].w_in
                                     ELSE WholeUpdate[n].w_in
      ]_vars

\* a forward call has returned a policy in the middle of an imprint call: the
\* output weights it read were the updated ones, the bias the old one, and
\* both differ between the start and the end of the update
C24_Witness ==
    /\ call.fn = "imprint"
    /\ call.reads
    /\ call.stage \in {1, 2}
    /\ ret.op = "forward"
    /\ ret.raised = "none"
    /\ \E n \in DOMAIN rules :
          /\ rules[n].w_out = WholeUpdate[n].w_out
          /\ rules[n].w_out # call.rs0[n].w_out
          /\ rules[n].bias = call.rs0[n].bias
          /\ rules[n].bias # WholeUpdate[n].bias

-----------------------------------------------------------------------------
(* mutation under EthosGovernor()                                          *)

Governed == cfg.governor = Some(DefaultGovernor)

\* C25: with EthosGovernor() installed no imprint call mutates: none reaches
\* mutate (so none raises IndexError), every returned record has mutated false
\* and Dm 0, the start-of-step Dm is 0, the mutation window holds only 0.0, and
\* the rules a call leaves are exactly the rules after its weight updates
C25_DefaultGovernorNeverMutates ==
    [][ (ImprintStep /\ Governed)
        => /\ ret'.raised \in {"none", "KeyError"}
           /\ \A i \in 1..Len(mutate_window') : mutate_window'[i] = 0
           /\ ret'.raised = "none"
                => /\ ~Val(ret'.rec).mutated
                   /\ Val(ret'.rec).Dm = 0
                   /\ Val(ret'.pre).dm = 0
                   /\ \E h \in {imprint_head(cfg, rules, ImpState, Val(ret'.args).policy,
                                             ret'.chosen, Val(ret'.args).reward, 0)} :
                         rules' = UpdatedRules(Val(ret'.args), ret'.chosen, h)
      ]_vars

\* a governed step on a graph with rules whose volatility is above the
\* trigger 0.02 and whose mode would let an update through: not mutated
C25_Witness ==
    /\ ImprintReturned
    /\ Governed
    /\ DOMAIN rules # {}
    /\ Val(ret.rec).volatility > MutateVolTrigger
    /\ Val(ret.rec).mode \in {"allow", "warning"}
    /\ ~Val(ret.rec).mutated

-----------------------------------------------------------------------------
(* the Dpi of the record                                                   *)

\* C26: every record returned by imprint has Dpi == 0, and its div_score is
\* the clipped weighted sum of its Dw and Dm alone: the policy shift enters
\* the start-of-step score that the governor sees, not the emitted one
C26_RecordDpiZero ==
    ImprintReturned
        => /\ Val(ret.rec).Dpi = 0
           /\ Val(ret.rec).div_score =
                 clip01(Mul(cfg.alpha_w, Val(ret.rec).Dw)
                        + Mul(cfg.alpha_m, Val(ret.rec).Dm))

\* a later step whose policy shift pushed the governor out of "allow": the
\* start-of-step Dpi is positive, the record's Dpi is 0 and its div_score is
\* below the score that decided the mode
C26_Witness ==
    /\ ImprintReturned
    /\ nCalls > 0
    /\ Len(stability_window) >= 2
    /\ Val(ret.pre).dpi > 0
    /\ Val(ret.rec).mode \in {"warning", "limit", "quarantine"}
    /\ Val(ret.rec).Dpi = 0
    /\ Val(ret.rec).div_score < Val(ret.pre).div

-----------------------------------------------------------------------------
(* the rule_acts argument of imprint                                       *)

\* the weights that an imprint call with arguments a and record rec makes of
\* the weights w of one rule, were act the rule's activation
UpdatedWith(w, act, a, chosen, rec) ==
    IF rec.mode = "quarantine" THEN w
    ELSE [bias |-> DecayShrink(w.bias,
                               Mul(Mul(Mul(rec.lr_eff, ONE \div 10), a.reward),
                                   act - ONE \div 2)),
          w_in |-> [f \in DOMAIN w.w_in \cup DOMAIN a.features |->
                      IF f \in DOMAIN a.features
                      THEN DecayShrink(Get(w.w_in, f),
                                       DeltaIn(a, chosen, rec.lr_eff, act, a.features[f]))
                      ELSE w.w_in[f]],
          w_out |-> [b \in DOMAIN w.w_out \cup Range(actions) |->
                      IF b \in Range(actions)
                      THEN DecayShrink(Get(w.w_out, b),
                                       DeltaOut(a, chosen, rec.lr_eff, act, b))
                      ELSE w.w_out[b]]]

\* C27 as stated: whenever the activation handed to imprint for a rule differs
\* from the rule's last_act, the weights the call leaves differ from those it
\* would leave had the handed activation been used
C27_StaleActivationsDiffer ==
    [][ (ImprintReturns /\ ~Val(ret'.rec).mutated)
        => \A n \in DOMAIN rules \cap DOMAIN Val(ret'.args).rule_acts :
              Val(ret'.args).rule_acts[n] # rules[n].last_act
                 => Weights(rules')[n] #
                       UpdatedWith(Weights(rules)[n], Val(ret'.args).rule_acts[n],
                                   Val(ret'.args), ret'.chosen, Val(ret'.rec))
      ]_vars

\* C27, amended: the weights an imprint call (without mutation) leaves are
\* those computed from each rule's last_act, which the call does not change
\* and which directly after a forward call is the activation that forward
\* returned, whatever activations are handed over; in "limit" and "quarantine"
\* the handed activations would have given the same weights
C27_UpdateUsesLastAct ==
    [][ (ImprintReturns /\ ~Val(ret'.rec).mutated)
        => \A n \in DOMAIN rules :
              /\ Weights(rules')[n] =
                    UpdatedWith(Weights(rules)[n], rules[n].last_act,
                                Val(ret'.args), ret'.chosen, Val(ret'.rec))
              /\ rules'[n].last_act = rules[n].last_act
              /\ (ret.op = "forward" /\ ret.raised = "none")
                    => rules[n].last_act = Val(fwd).rule_acts[n]
              /\ (Val(ret'.rec).mode \in {"limit", "quarantine"}
                    /\ n \in DOMAIN Val(ret'.args).rule_acts)
                    => Weights(rules')[n] =
                          UpdatedWith(Weights(rules)[n], Val(ret'.args).rule_acts[n],
                                      Val(ret'.args), ret'.chosen, Val(ret'.rec))
      ]_vars

\* the weights of rule n that w0, captured before the first update, holds
BirthWeights(n) ==
    [bias |-> Val(w0_snap).bias[n], w_in |-> Val(w0_snap).w_in[n],
     w_out |-> Val(w0_snap).w_out[n]]

\* forward(f2), then a first imprint with the features f1 and the activations
\* of f1: the rule's last_act is the one forward(f2) returned, the weights are
\* those computed from it and not those the activations of f1 would give
C27_Witness ==
    /\ FirstImprintReturned
    /\ ~Val(ret.rec).mutated
    /\ ~IsNone(fwd)
    /\ \E n \in DOMAIN rules \cap DOMAIN Args.rule_acts :
          /\ n \in DOMAIN Val(fwd).rule_acts
          /\ Val(fwd).rule_acts[n] = rules[n].last_act
          /\ Args.rule_acts[n] # rules[n].last_act
          /\ Weights(rules)[n] =
                UpdatedWith(BirthWeights(n), rules[n].last_act, Args, ret.chosen,
                            Val(ret.rec))
          /\ Weights(rules)[n] #
                UpdatedWith(BirthWeights(n), Args.rule_acts[n], Args, ret.chosen,
                            Val(ret.rec))

-----------------------------------------------------------------------------
(* the default imprinter: div_alpha (0.5, 0.4, 0.1), mut_window 50         *)

\* LiveImprinter(): every argument at its default, governor=None
DefaultImprinter ==
    [base_lr |-> base_lr, decay |-> decay, l1 |-> l1, td |-> td,
     allow_mutation |-> TRUE, governor |-> None,
     alpha_w |-> alpha_w, alpha_pi |-> alpha_pi, alpha_m |-> alpha_m,
     mut_window |-> mut_window]

\* imprint(graph, {}, rule_acts, WarmPolicy(k), "LEFT", 0.0) of the default
\* imprinter on the outcome prev of the calls before it, the draw of the
\* mutation gate failing
IdleStep(prev, k) ==
    imprint(DefaultImprinter, prev.rules, <<"LEFT", "RIGHT">>, prev.st, EmptyMap,
            WarmPolicy(k), "LEFT", 0, 0, FALSE, NoDraws)

\* graph.add_rule("R_ctx_align") with no weights on a new graph, then the
\* first such call: it creates the rule's output weights, all 0.0
IdleFirst ==
    IdleStep([rules |-> [R_ctx_align |-> add_rule_node(EmptyMap, EmptyMap, 0)],
              st |-> FreshImp], 1)

\* the imprinter after j >= 1 such calls.  With reward 0.0 and an activation
\* of 0.0 every delta is 0.0: the graph, w0 and prev_snap stay as the first
\* call left them, the volatility window holds the j values policy["LEFT"],
\* the mutation window two zeros per call
IdleAfter(first, j) ==
    [rules |-> first.rules,
     st |-> [first.st EXCEPT
               !.stability_window = [i \in 1..j |-> WarmPolicy(i).LEFT],
               !.mutate_window =
                   [i \in 1..Min2(2 * j, DefaultImprinter.mut_window) |-> 0],
               !.prev_policy = Some(WarmPolicy(j))]]

\* the outcome of the last of k >= 2 such calls
IdleRun(k) == IdleStep(IdleAfter(IdleFirst, k - 1), k)

\* the state such a run has reached
IdleState(w) ==
    /\ actions = <<"LEFT", "RIGHT">>
    /\ order = <<"R_ctx_align">>
    /\ rules = w.rules
    /\ cfg = DefaultImprinter
    /\ stability_window = w.st.stability_window
    /\ mutate_window = w.st.mutate_window
    /\ w0_snap = w.st.w0_snap
    /\ w0_l1 = w.st.w0_l1
    /\ prev_policy = w.st.prev_policy
    /\ prev_snap = w.st.prev_snap
    /\ fwd = None
    /\ ret = [Ret("imprint", w.raised, "LEFT", w.pre, w.rec) EXCEPT
                !.args = Some([features |-> EmptyMap,
                               rule_acts |-> RuleActsFor(w.rules, EmptyMap),
                               policy |-> WarmPolicy(WarmCalls), reward |-> 0])]
    /\ nCalls = 1   \* the calls made so far count as one call of the run
    /\ nMut = 0
    /\ call = NoCall

\* the rule build_graph adds first
FirstRule == CHOOSE a \in RuleInputs : DOMAIN a.inputs = {"ctxA"} /\ a.bias # 0

\* graph.add_rule(FirstRule) on a new graph, and a new imprinter c
BuiltState(c) ==
    /\ actions = <<"LEFT", "RIGHT">>
    /\ order = <<FirstRule.name>>
    /\ rules = add_rule(EmptyMap, FirstRule.name, FirstRule.inputs,
                        FirstRule.outputs, FirstRule.bias)
    /\ cfg = c
    /\ stability_window = <<>>
    /\ mutate_window = <<>>
    /\ w0_snap = None
    /\ w0_l1 = None
    /\ prev_policy = None
    /\ prev_snap = None
    /\ fwd = None
    /\ ret = [Ret("add_rule", "none", "", None, None) EXCEPT !.args = Some(FirstRule)]
    /\ nCalls = 0
    /\ nMut = 0
    /\ call = NoCall

\* a graph with one rule and a new imprinter with the default weights and
\* window, with or without governor, or the default imprinter after WarmCalls
\* calls
InitDefaults ==
    \/ BuiltState(DefaultImprinter)
    \/ BuiltState(GovernedConfig)
    \/ IdleState(IdleRun(WarmCalls))

SpecDefaults == InitDefaults /\ [][Next]_vars

\* the imprinter was built with the default div_alpha and mut_window
DefaultsInForce ==
    /\ <<cfg.alpha_w, cfg.alpha_pi, cfg.alpha_m>> = <<alpha_w, alpha_pi, alpha_m>>
    /\ cfg.mut_window = mut_window

\* C28: with the default divergence weights (0.5, 0.4, 0.1) and the default
\* mutation window of 50, every record imprint returns has Dm <= 0.5 and
\* div_score <= 0.55, below the limit threshold 0.70 and the quarantine
\* threshold 0.85, in every mode
C28_RecordScoreBounded ==
    (ImprintReturned /\ DefaultsInForce) =>
        /\ Val(ret.rec).Dm <= ONE \div 2
        /\ Val(ret.rec).div_score <= 5500
        /\ Val(ret.rec).div_score < DefaultGovernor.limit_thresh
        /\ Val(ret.rec).div_score < DefaultGovernor.quarantine_thresh

\* a mutating step of the default imprinter whose mutation window is full
\* and has dropped entries, with the mutation before it still in the window
C28_Witness ==
    /\ ImprintReturned
    /\ DefaultsInForce
    /\ Val(ret.rec).mutated
    /\ Len(mutate_window) = mut_window
    /\ mutate_window[mut_window - 2] = 1
    /\ Val(ret.rec).Dm > 0

-----------------------------------------------------------------------------
(* the same policy twice                                                   *)

\* the policy handed to the imprint call of this step is the one the previous
\* returned imprint call was given: the call right before this one, or the
\* one the imprinter remembers
SamePolicyAgain ==
    \/ /\ ImprintReturned
       /\ Args.policy = Val(ret'.args).policy
    \/ prev_policy = Some(Val(ret'.args).policy)

\* C29: with the default thresholds, divergence weights and window, an imprint
\* step given the policy of the imprint step before it starts with Dpi = 0 and
\* a score of at most 0.55, and its mode is "allow" or "warning"; a quarantine
\* step leaves what forward computes for every feature vector as it was
C29_SamePolicyNotRestricted ==
    [][ /\ (ImprintReturns /\ Governed /\ DefaultsInForce /\ SamePolicyAgain)
            => /\ Val(ret'.pre).dpi = 0
               /\ Val(ret'.pre).div <= 5500
               /\ Val(ret'.rec).mode \in {"allow", "warning"}
        /\ (ImprintReturns /\ Governed /\ DefaultsInForce
               /\ Val(ret'.rec).mode = "quarantine")
            => \A f \in FeatureInputs :
                  forward_rules(rules', order', f) = forward_rules(rules, order, f)
      ]_vars

\* the step after a quarantined step of a long run, given the same policy:
\* Dw is still 1.0, Dpi is 0, the score is 0.5 and the mode "warning"
C29_Witness ==
    /\ ImprintReturned
    /\ Governed
    /\ DefaultsInForce
    /\ nCalls = 1
    /\ Len(stability_window) = WarmCalls + 1
    /\ Args.policy = WarmPolicy(WarmCalls)
    /\ Val(ret.pre).dw = ONE
    /\ Val(ret.pre).dpi = 0
    /\ Val(ret.rec).mode = "warning"

-----------------------------------------------------------------------------
(* the governor keeps no history                                           *)

\* the mode the default thresholds give a start-of-step score
LevelOf(score) ==
    IF score >= quarantine_thresh THEN "quarantine"
    ELSE IF score >= limit_thresh THEN "limit"
    ELSE IF score >= warn_thresh THEN "warning"
    ELSE "allow"

\* C30: no call changes the imprinter's configuration (base_lr, decay, l1, td,
\* the governor and its thresholds); the mode of every step of a governed
\* imprinter is the level of that step's start-of-step score alone, whatever
\* the modes before; and a step whose start-of-step score is below 0.50
\* reports "allow" with lr_eff == base_lr
C30_LevelTriggered ==
    [][ /\ cfg' = cfg
        /\ (ImprintReturns /\ Governed)
            => /\ Val(ret'.rec).mode = LevelOf(Val(ret'.pre).div)
               /\ Val(ret'.pre).div < warn_thresh
                     => /\ Val(ret'.rec).mode = "allow"
                        /\ Val(ret'.rec).lr_eff = cfg.base_lr
                        /\ Val(ret'.rec).lr_eff = base_lr
      ]_vars

\* the first imprint step after the quarantined steps of a long run, the rule
\* having been added again in between: its score is below 0.50 and, with a
\* volatility far above tau, its mode is "allow" at the full learning rate
C30_Witness ==
    /\ ImprintReturned
    /\ Governed
    /\ Len(stability_window) = WarmCalls + 1
    /\ Val(ret.pre).div < warn_thresh
    /\ Val(ret.rec).volatility > tau_volatility
    /\ Val(ret.rec).mode = "allow"
    /\ Val(ret.rec).lr_eff = base_lr

=============================================================================
